---------------------------- MODULE Spec2Model ----------------------------
(***************************************************************************)
(* Model of youtube-chat.py: the transcript handler, the prompt builder    *)
(* and the interactive controller (VideoCLIApp) with its two exception     *)
(* scopes.                                                                 *)
(*                                                                         *)
(* Text is a sequence of characters; a word that holds no space, period,   *)
(* comma or newline may stand as one element.  Python values that can be   *)
(* a str, a list holding one str, or None are records [type, val].         *)
(* The controller blocks at input() and at the external calls (transcript  *)
(* backend, punctuation model, chat completion); those are the points      *)
(* where input, results, errors and user interrupts arrive, and the        *)
(* program counter pc names the point the process is blocked at.  The      *)
(* Halo spinners are presentational and are not modelled.                  *)
(***************************************************************************)
EXTENDS Integers, Sequences, FiniteSets, TLC

VARIABLES
    pc,            \* where the process is blocked, or "done"
    origin,        \* which menu action the running call belongs to
    video_url,     \* the URL handed to _fetch_video_transcript
    transcript,    \* VideoCLIApp._transcript
    chat_history,  \* VideoCLIApp._chat_history
    question,      \* the question argument of the _chat_with_ai call in flight
    prompt,        \* the prompt handed to LLMHandler.invoke, in flight
    printed,       \* what the last step wrote to the terminal
    exc,           \* the exception the last step raised and the scope that caught it
    event,         \* what the last step consumed: a line read, a backend result
    fetched,       \* history variable: the result of each successful pipeline, in order
    completed,     \* history variable: (question, answer) of each completed invoke
    invokeCount,   \* history variable: number of LLMHandler.invoke calls started
    fetchCount,    \* history variable: number of _fetch_video_transcript calls started
    menuShown,     \* history variable: the menu has been printed at least once
    returned       \* the value a handler function returned when applied on its own

vars == <<pc, origin, video_url, transcript, chat_history, question, prompt,
          printed, exc, event, fetched, completed, invokeCount, fetchCount,
          menuShown, returned>>

(***************************************************************************)
(* Bounds                                                                  *)
(***************************************************************************)
MaxTurns == 2
MaxInvokes == 2
MaxFetches == 2
MaxPromptHistory == 2
MaxTextLen == 4

(***************************************************************************)
(* Python values                                                           *)
(***************************************************************************)
PyNone == [type |-> "None", val |-> <<>>]
PyStr(t) == [type |-> "str", val |-> t]
PyList1(t) == [type |-> "list", val |-> t]

\* str(v) as an f-string field renders it: a str as itself, a list holding one
\* str as its repr, None as the word None
Format(v) ==
    CASE v.type = "str" -> v.val
      [] v.type = "list" -> <<"[", "'">> \o v.val \o <<"'", "]">>
      [] OTHER -> <<"None">>

(***************************************************************************)
(* Text helpers                                                            *)
(***************************************************************************)
IsWhitespace(c) == c \in {" ", "\n", "\t"}

RECURSIVE LStrip(_)
LStrip(s) == IF s # <<>> /\ IsWhitespace(Head(s)) THEN LStrip(Tail(s)) ELSE s

RECURSIVE RStrip(_)
RStrip(s) ==
    IF s # <<>> /\ IsWhitespace(s[Len(s)]) THEN RStrip(SubSeq(s, 1, Len(s) - 1)) ELSE s

\* str.strip()
Strip(s) == RStrip(LStrip(s))

LowerChar(c) ==
    CASE c = "E" -> "e" [] c = "X" -> "x" [] c = "I" -> "i" [] c = "T" -> "t"
      [] OTHER -> c

\* str.lower()
Lower(s) == [i \in 1..Len(s) |-> LowerChar(s[i])]

\* variant: only the first occurrence is replaced
Replace2_FirstOnly(s, old, new) ==
    LET hits == { i \in 1..(Len(s) - 1) : s[i] = old[1] /\ s[i + 1] = old[2] }
    IN  IF hits = {} THEN s
        ELSE LET i == CHOOSE k \in hits : \A j \in hits : k <= j
             IN  SubSeq(s, 1, i - 1) \o new \o SubSeq(s, i + 2, Len(s))

\* str.replace(old, new) for a two-character old and a two-character new:
\* left to right, non-overlapping
RECURSIVE Replace2(_, _, _)
Replace2(s, old, new) ==
    IF Len(s) < 2 THEN s
    ELSE IF s[1] = old[1] /\ s[2] = old[2]
         THEN new \o Replace2(SubSeq(s, 3, Len(s)), old, new)
         ELSE <<s[1]>> \o Replace2(Tail(s), old, new)

\* sep.join(parts)
RECURSIVE Join(_, _)
Join(sep, parts) ==
    IF parts = <<>> THEN <<>>
    ELSE IF Len(parts) = 1 THEN parts[1]
    ELSE parts[1] \o sep \o Join(sep, Tail(parts))

(***************************************************************************)
(* YouTubeTranscriptHandler                                                *)
(***************************************************************************)
\* A URL as urlparse splits it: hostname, query as key=value pairs, path.
Url(h, q, p) == [hostname |-> h, query |-> q, path |-> p]

URLs ==
    { Url("www.youtube.com", << <<"v", "ABC123">> >>, <<"/", "watch">>),
      Url("www.youtube.com", << <<"t", "42">> >>, <<"/", "watch">>),
      Url("youtu.be", <<>>, <<"/", "XYZ987">>),
      Url("youtu.be", <<>>, <<"/", "DEF456">>),
      Url("example.com", << <<"v", "ABC123">> >>, <<"/", "watch">>) }

NoUrl == Url("", <<>>, <<>>)

\* parse_qs(query).get('v', [None])[0]: the first non-blank value of key v
RECURSIVE FirstV(_)
FirstV(q) ==
    IF q = <<>> THEN PyNone
    ELSE IF Head(q)[1] = "v" /\ Head(q)[2] # "" THEN PyStr(<<Head(q)[2]>>)
    ELSE FirstV(Tail(q))

extract_video_id(url) ==
    IF url.hostname = "www.youtube.com" THEN FirstV(url.query)
    ELSE IF url.hostname = "youtu.be"
         THEN PyStr(IF url.path = <<>> THEN <<>> ELSE Tail(url.path))
    ELSE PyNone

\* The caption backend: the timed English entries of a video, or none.
Entry(t, s, d) == [text |-> t, start |-> s, duration |-> d]

Captions(video_id) ==
    CASE video_id = PyStr(<<"ABC123">>) ->
            << Entry(<<"hello", " ", "world">>, 0, 2),
               Entry(<<"how", " ", "are", " ", "you">>, 2, 3) >>
      [] video_id = PyStr(<<"DEF456">>) ->
            << Entry(<<"one", " ", "two">>, 0, 1) >>
      [] OTHER -> <<>>

HasCaptions(video_id) == Captions(video_id) # <<>>

\* variant: the entry texts are concatenated without a separator
get_transcript_NoSeparator(video_id) ==
    LET entries == Captions(video_id)
    IN  Join(<<>>, [i \in 1..Len(entries) |-> entries[i].text])

get_transcript(video_id) ==
    LET entries == Captions(video_id)
    IN  Join(<<" ">>, [i \in 1..Len(entries) |-> entries[i].text])

\* What the punctuation model may return for a text.
PunctuationModelOutputs(text) ==
    IF text = <<"hello", " ", "world", " ", "how", " ", "are", " ", "you">>
    THEN { <<"Hello", " ", "world", ".", " ", "How", " ", "are", " ", "you?">> }
    ELSE { <<"One", ",", " ", "two", ".">> }

\* the formatting pass of add_punctuation
LineBreaks(p) == Replace2(Replace2(p, <<".", " ">>, <<".", "\n">>), <<",", " ">>, <<",", "\n">>)

(***************************************************************************)
(* LLMHandler                                                              *)
(***************************************************************************)
T_Head == "\n        You are an expert answering based only on the provided video transcript.\n        Transcript: \n\n        "
T_History == "\n\n        Chat history:\n        "
T_Question == "\n\n        Question: "
T_Tail == "\n\n        Answer in detail using only the transcript and chat history. ...\n        "

\* f"Q: {q}\nA: {a}"
RenderTurn(turn) == <<"Q: ">> \o Format(turn[1]) \o <<"\n", "A: ">> \o Format(turn[2])

RenderHistory(h) == Join(<<"\n">>, [i \in 1..Len(h) |-> RenderTurn(h[i])])

RECURSIVE Reverse(_)
Reverse(s) == IF s = <<>> THEN <<>> ELSE Append(Reverse(Tail(s)), Head(s))

\* variant: the history is rendered newest turn first
prepare_prompt_NewestFirst(text, q, h) ==
    <<T_Head>> \o text \o <<T_History>> \o RenderHistory(Reverse(h))
        \o <<T_Question>> \o Format(q) \o <<T_Tail>>

prepare_prompt(text, q, h) ==
    <<T_Head>> \o text \o <<T_History>> \o RenderHistory(h)
        \o <<T_Question>> \o Format(q) \o <<T_Tail>>

\* What the chat completion backend may return as content.
Responses == { <<" ", "ok", "\n">>, <<"no">> }


(***************************************************************************)
(* Terminal output and input                                               *)
(***************************************************************************)
Msg(m, a) == [msg |-> m, arg |-> a]

\* the menu header and its seven option lines (lines 109-111)
MenuText == Msg("\nMenu:", <<>>)
InvalidText == Msg("Invalid choice. Please try again.", <<>>)
ChatInterruptedText == Msg("\nChat interrupted. Returning to menu...", <<>>)
ExitingText == Msg("Exiting...", <<>>)
TopExitingText == Msg("\nExiting...", <<>>)
ErrorText(e) == Msg("Error: ", <<e>>)

NoEvent == [kind |-> "none", text |-> <<>>]
LineEvent(l) == [kind |-> "line", text |-> l]
ResponseEvent(r) == [kind |-> "response", text |-> r]
PipelineEvent(t) == [kind |-> "pipeline", text |-> t]
UrlEvent(u) == [kind |-> "url", text |-> <<u.hostname>> \o u.path]

NoExc == [type |-> "none", handler |-> "none"]

\* lines the user may type at the menu prompt
MenuInputs ==
    { <<"0">>, <<"1">>, <<"2">>, <<"3">>, <<"4">>, <<"5">>, <<"6">>,
      <<"7">>, <<" ", "1">> }

\* lines the user may type at the chat prompt
ChatInputs ==
    { <<"e", "x", "i", "t">>, <<"E", "x", "I", "T">>, <<"e", "x", "i", "t", " ">>,
      <<>>, <<"1">> }

(***************************************************************************)
(* VideoCLIApp                                                             *)
(***************************************************************************)
Option(d, a, q) == [description |-> d, action |-> a, question |-> q]

\* variant: the FAQ entry carries the summary question
menu_options_CopiedQuestion ==
    ( <<"1">> :> Option("Print Punctuated Transcript", "_print_transcript", <<>>) ) @@
    ( <<"2">> :> Option("Summarize Transcript", "_ask_ai_single_question",
                        << <<"provide a summary of the video content">> >>) ) @@
    ( <<"3">> :> Option("Chat with AI Assistant", "_chat_with_ai_loop", <<>>) ) @@
    ( <<"4">> :> Option("FAQ", "_ask_ai_single_question",
                        << <<"provide a summary of the video content">> >>) ) @@
    ( <<"5">> :> Option("Table of Contents", "_ask_ai_single_question",
                        << <<"provide a table of contents based on the video content">> >>) ) @@
    ( <<"6">> :> Option("Change Video", "_change_video", <<>>) ) @@
    ( <<"0">> :> Option("Exit", "_exit_app", <<>>) )

\* self._menu_options; question is the tail of the tuple after the action
menu_options ==
    ( <<"1">> :> Option("Print Punctuated Transcript", "_print_transcript", <<>>) ) @@
    ( <<"2">> :> Option("Summarize Transcript", "_ask_ai_single_question",
                        << <<"provide a summary of the video content">> >>) ) @@
    ( <<"3">> :> Option("Chat with AI Assistant", "_chat_with_ai_loop", <<>>) ) @@
    ( <<"4">> :> Option("FAQ", "_ask_ai_single_question",
                        << <<"provide a 5 question FAQ based on the video content">> >>) ) @@
    ( <<"5">> :> Option("Table of Contents", "_ask_ai_single_question",
                        << <<"provide a table of contents based on the video content">> >>) ) @@
    ( <<"6">> :> Option("Change Video", "_change_video", <<>>) ) @@
    ( <<"0">> :> Option("Exit", "_exit_app", <<>>) )

\* line 116-117: *question collects the rest of the tuple into a list, and
\* that list is what action(question) passes
QuestionArgument(opt) == PyList1(opt.question[1])

NoQuestion == PyNone

\* the results _fetch_video_transcript may return for a URL; none if the
\* caption backend raises
FetchResults(url) ==
    LET video_id == extract_video_id(url)
    IN  IF HasCaptions(video_id)
        THEN { LineBreaks(p) : p \in PunctuationModelOutputs(get_transcript(video_id)) }
        ELSE {}

(***************************************************************************)
(* Exception scopes                                                        *)
(***************************************************************************)
\* variant: every exception, SystemExit too, counts as an Exception
IsException_Any(type) == type # "KeyboardInterrupt"

IsException(type) == type \notin {"KeyboardInterrupt", "SystemExit"}

\* variant: _menu_loop wraps every action in the try block the chat loop has
Scopes_MenuCatches(at, org) ==
    IF at \in {"url_prompt", "construct"} THEN <<>>
    ELSE IF at \in {"chat", "asking", "change_url", "refetching"}
         THEN <<"_chat_with_ai_loop", "run">>
         ELSE <<"run">>

\* the try blocks around the point the process is blocked at, innermost first
Scopes(at, org) ==
    IF at \in {"url_prompt", "construct"} THEN <<>>
    ELSE IF at = "chat" \/ (at = "asking" /\ org = "chat")
         THEN <<"_chat_with_ai_loop", "run">>
         ELSE <<"run">>

\* variant: the chat loop's except clause names Exception
Catches_ChatExcept(scope, type) ==
    CASE scope = "_chat_with_ai_loop" -> IsException(type)
      [] scope = "run" -> type = "KeyboardInterrupt" \/ IsException(type)
      [] OTHER -> FALSE

\* variant: the chat loop has a bare except clause
Catches_ChatBareExcept(scope, type) ==
    CASE scope = "_chat_with_ai_loop" -> type = "KeyboardInterrupt" \/ IsException(type)
      [] scope = "run" -> type = "KeyboardInterrupt" \/ IsException(type)
      [] OTHER -> FALSE

Catches(scope, type) ==
    CASE scope = "_chat_with_ai_loop" -> type = "KeyboardInterrupt"
      [] scope = "run" -> type = "KeyboardInterrupt" \/ IsException(type)
      [] OTHER -> FALSE

RECURSIVE Handler(_, _)
Handler(scopes, type) ==
    IF scopes = <<>> THEN "uncaught"
    ELSE IF Catches(Head(scopes), type) THEN Head(scopes)
    ELSE Handler(Tail(scopes), type)

\* an exception of the given type is raised where the process is; before is
\* what the step printed before raising.  Where the process ends, origin and
\* video_url stay as they were when it was raised.
Raise(type, before) ==
    LET h == Handler(Scopes(pc, origin), type)
    IN  /\ exc' = [type |-> type, handler |-> h]
        /\ IF h = "_chat_with_ai_loop"
           THEN /\ pc' = "menu"
                /\ printed' = before \o <<ChatInterruptedText, MenuText>>
                /\ menuShown' = TRUE
           ELSE IF h = "run"
           THEN /\ pc' = "done"
                /\ printed' = before \o
                      <<IF type = "KeyboardInterrupt" THEN TopExitingText ELSE ErrorText(type)>>
                /\ UNCHANGED menuShown
           ELSE /\ pc' = "done"
                /\ printed' = before
                /\ UNCHANGED menuShown
        /\ origin' = IF h = "_chat_with_ai_loop" THEN "none" ELSE origin
        /\ question' = NoQuestion
        /\ prompt' = <<>>
        /\ UNCHANGED <<returned, video_url, transcript, chat_history, fetched, completed,
                       invokeCount, fetchCount>>


(***************************************************************************)
(* Initial state: the interpreter has loaded the module, nothing has run.  *)
(***************************************************************************)
Init ==
    /\ pc = "start"
    /\ origin = "none"
    /\ video_url = NoUrl
    /\ transcript = <<>>
    /\ chat_history = <<>>
    /\ question = NoQuestion
    /\ prompt = <<>>
    /\ printed = <<>>
    /\ exc = NoExc
    /\ event = NoEvent
    /\ fetched = <<>>
    /\ completed = <<>>
    /\ invokeCount = 0
    /\ fetchCount = 0
    /\ menuShown = FALSE
    /\ returned = PyNone

(***************************************************************************)
(* __main__                                                                *)
(***************************************************************************)
\* --url was given: straight to VideoCLIApp()
MainWithUrl ==
    /\ pc = "start"
    /\ \E url \in URLs : video_url' = url
    /\ pc' = "construct"
    /\ printed' = <<>>
    /\ exc' = NoExc
    /\ event' = NoEvent
    /\ UNCHANGED <<returned, origin, transcript, chat_history, question, prompt, fetched,
                   completed, invokeCount, fetchCount, menuShown>>

\* no --url: block at input() on line 171
MainPromptUrl ==
    /\ pc = "start"
    /\ pc' = "url_prompt"
    /\ printed' = <<>>
    /\ exc' = NoExc
    /\ event' = NoEvent
    /\ UNCHANGED <<returned, origin, video_url, transcript, chat_history, question, prompt,
                   fetched, completed, invokeCount, fetchCount, menuShown>>

\* the user types the URL at line 171
MainReadUrl ==
    /\ pc = "url_prompt"
    /\ \E url \in URLs :
          /\ video_url' = url
          /\ event' = UrlEvent(url)
    /\ pc' = "construct"
    /\ printed' = <<>>
    /\ exc' = NoExc
    /\ UNCHANGED <<returned, origin, transcript, chat_history, question, prompt, fetched,
                   completed, invokeCount, fetchCount, menuShown>>

\* VideoCLIApp() returns and run() starts the initial fetch (line 158)
Construct ==
    /\ pc = "construct"
    /\ chat_history' = <<>>
    /\ transcript' = <<>>
    /\ pc' = "fetching"
    /\ fetchCount' = fetchCount + 1
    /\ printed' = <<>>
    /\ exc' = NoExc
    /\ event' = NoEvent
    /\ UNCHANGED <<returned, origin, video_url, question, prompt, fetched, completed,
                   invokeCount, menuShown>>

\* LLMHandler.__init__ rejects the configuration
ConstructFail ==
    /\ pc = "construct"
    /\ event' = NoEvent
    /\ Raise("ValidationError", <<>>)

(***************************************************************************)
(* run                                                                     *)
(***************************************************************************)
\* line 158: the initial pipeline returns, the result is stored, and
\* _menu_loop prints the menu and blocks at line 113
RunFetched ==
    /\ pc = "fetching"
    /\ \E t \in FetchResults(video_url) :
          /\ transcript' = t
          /\ fetched' = Append(fetched, t)
          /\ event' = PipelineEvent(t)
    /\ pc' = "menu"
    /\ printed' = <<MenuText>>
    /\ menuShown' = TRUE
    /\ video_url' = NoUrl
    /\ exc' = NoExc
    /\ UNCHANGED <<returned, origin, chat_history, question, prompt, completed, invokeCount,
                   fetchCount>>

\* variant: the failure is reported and the menu loop is entered anyway
FetchFail_Continue ==
    /\ pc \in {"fetching", "refetching"}
    /\ FetchResults(video_url) = {}
    /\ event' = NoEvent
    /\ exc' = [type |-> "TranscriptError", handler |-> "run"]
    /\ printed' = <<ErrorText("TranscriptError"), MenuText>>
    /\ pc' = "menu"
    /\ menuShown' = TRUE
    /\ origin' = "none"
    /\ video_url' = NoUrl
    /\ UNCHANGED <<returned, transcript, chat_history, question, prompt, fetched, completed,
                   invokeCount, fetchCount>>

\* the caption backend raises inside _fetch_video_transcript (initial fetch
\* or change video)
FetchFail ==
    /\ pc \in {"fetching", "refetching"}
    /\ FetchResults(video_url) = {}
    /\ event' = NoEvent
    /\ Raise("TranscriptError", <<>>)

(***************************************************************************)
(* _menu_loop: one line read at line 113 and the action it dispatches      *)
(***************************************************************************)
\* variant: the line is trimmed before the lookup
PrintTranscript_Trimmed ==
    /\ pc = "menu"
    /\ \E choice \in MenuInputs :
          /\ Strip(choice) \in DOMAIN menu_options
          /\ menu_options[Strip(choice)].action = "_print_transcript"
          /\ event' = LineEvent(choice)
    /\ printed' = <<Msg("\nPunctuated Transcript:\n", transcript), MenuText>>
    /\ exc' = NoExc
    /\ UNCHANGED <<returned, pc, origin, video_url, transcript, chat_history, question, prompt,
                   fetched, completed, invokeCount, fetchCount, menuShown>>

\* option 1, _print_transcript
PrintTranscript ==
    /\ pc = "menu"
    /\ \E choice \in MenuInputs :
          /\ choice \in DOMAIN menu_options
          /\ menu_options[choice].action = "_print_transcript"
          /\ event' = LineEvent(choice)
    /\ printed' = <<Msg("\nPunctuated Transcript:\n", transcript), MenuText>>
    /\ exc' = NoExc
    /\ UNCHANGED <<returned, pc, origin, video_url, transcript, chat_history, question, prompt,
                   fetched, completed, invokeCount, fetchCount, menuShown>>

\* lines 147-151 of _chat_with_ai: build the prompt and block in invoke
StartInvoke(q) ==
    /\ invokeCount < MaxInvokes
    /\ Len(chat_history) < MaxTurns
    /\ question' = q
    /\ prompt' = prepare_prompt(transcript, q, chat_history)
    /\ invokeCount' = invokeCount + 1
    /\ pc' = "asking"

\* options 2, 4, 5: _ask_ai_single_question with the rest of the option tuple
AskSingleQuestion ==
    /\ pc = "menu"
    /\ \E choice \in MenuInputs :
          /\ choice \in DOMAIN menu_options
          /\ menu_options[choice].action = "_ask_ai_single_question"
          /\ event' = LineEvent(choice)
          /\ StartInvoke(QuestionArgument(menu_options[choice]))
    /\ origin' = "single"
    /\ printed' = <<>>
    /\ exc' = NoExc
    /\ UNCHANGED <<returned, video_url, transcript, chat_history, fetched, completed,
                   fetchCount, menuShown>>

\* option 3: enter _chat_with_ai_loop and block at line 124
EnterChat ==
    /\ pc = "menu"
    /\ \E choice \in MenuInputs :
          /\ choice \in DOMAIN menu_options
          /\ menu_options[choice].action = "_chat_with_ai_loop"
          /\ event' = LineEvent(choice)
    /\ pc' = "chat"
    /\ origin' = "chat"
    /\ printed' = <<>>
    /\ exc' = NoExc
    /\ UNCHANGED <<returned, video_url, transcript, chat_history, question, prompt, fetched,
                   completed, invokeCount, fetchCount, menuShown>>

\* option 6: _change_video blocks at input() on line 136
ChangeVideo ==
    /\ pc = "menu"
    /\ fetchCount < MaxFetches
    /\ \E choice \in MenuInputs :
          /\ choice \in DOMAIN menu_options
          /\ menu_options[choice].action = "_change_video"
          /\ event' = LineEvent(choice)
    /\ pc' = "change_url"
    /\ origin' = "change"
    /\ printed' = <<>>
    /\ exc' = NoExc
    /\ UNCHANGED <<returned, video_url, transcript, chat_history, question, prompt, fetched,
                   completed, invokeCount, fetchCount, menuShown>>

\* option 0: _exit_app prints and calls exit(), which raises SystemExit
ExitApp ==
    /\ pc = "menu"
    /\ \E choice \in MenuInputs :
          /\ choice \in DOMAIN menu_options
          /\ menu_options[choice].action = "_exit_app"
          /\ event' = LineEvent(choice)
    /\ Raise("SystemExit", <<ExitingText>>)

\* line 119: the line is no key of _menu_options
InvalidChoice ==
    /\ pc = "menu"
    /\ \E choice \in MenuInputs :
          /\ choice \notin DOMAIN menu_options
          /\ event' = LineEvent(choice)
    /\ printed' = <<InvalidText, MenuText>>
    /\ exc' = NoExc
    /\ UNCHANGED <<returned, pc, origin, video_url, transcript, chat_history, question, prompt,
                   fetched, completed, invokeCount, fetchCount, menuShown>>

(***************************************************************************)
(* _change_video                                                           *)
(***************************************************************************)
\* variant: a URL without identifier is rejected and asked for again
ChangeVideoReadUrl_Validates ==
    /\ pc = "change_url"
    /\ \E url \in URLs :
          /\ event' = UrlEvent(url)
          /\ IF extract_video_id(url) = PyNone
             THEN /\ video_url' = NoUrl
                  /\ pc' = "change_url"
                  /\ fetchCount' = fetchCount
                  /\ printed' = <<InvalidText>>
             ELSE /\ video_url' = url
                  /\ pc' = "refetching"
                  /\ fetchCount' = fetchCount + 1
                  /\ printed' = <<>>
    /\ exc' = NoExc
    /\ UNCHANGED <<returned, origin, transcript, chat_history, question, prompt, fetched,
                   completed, invokeCount, menuShown>>

\* line 136 returns the URL and line 137 starts the pipeline
ChangeVideoReadUrl ==
    /\ pc = "change_url"
    /\ \E url \in URLs :
          /\ video_url' = url
          /\ event' = UrlEvent(url)
    /\ pc' = "refetching"
    /\ fetchCount' = fetchCount + 1
    /\ printed' = <<>>
    /\ exc' = NoExc
    /\ UNCHANGED <<returned, origin, transcript, chat_history, question, prompt, fetched,
                   completed, invokeCount, menuShown>>

\* variant: a new video starts a new conversation
ChangeVideoFetched_ClearsHistory ==
    /\ pc = "refetching"
    /\ \E t \in FetchResults(video_url) :
          /\ transcript' = t
          /\ fetched' = Append(fetched, t)
          /\ event' = PipelineEvent(t)
    /\ chat_history' = <<>>
    /\ pc' = "menu"
    /\ origin' = "none"
    /\ printed' = <<MenuText>>
    /\ video_url' = NoUrl
    /\ exc' = NoExc
    /\ UNCHANGED <<returned, question, prompt, completed, invokeCount, fetchCount,
                   menuShown>>

\* variant: the pipeline's result is dropped instead of stored
ChangeVideoFetched_Discard ==
    /\ pc = "refetching"
    /\ \E t \in FetchResults(video_url) :
          /\ fetched' = Append(fetched, t)
          /\ event' = PipelineEvent(t)
    /\ pc' = "menu"
    /\ origin' = "none"
    /\ printed' = <<MenuText>>
    /\ video_url' = NoUrl
    /\ exc' = NoExc
    /\ UNCHANGED <<returned, transcript, chat_history, question, prompt, completed, invokeCount,
                   fetchCount, menuShown>>

\* line 137: the pipeline returns and its result replaces the transcript;
\* back in _menu_loop
ChangeVideoFetched ==
    /\ pc = "refetching"
    /\ \E t \in FetchResults(video_url) :
          /\ transcript' = t
          /\ fetched' = Append(fetched, t)
          /\ event' = PipelineEvent(t)
    /\ pc' = "menu"
    /\ origin' = "none"
    /\ printed' = <<MenuText>>
    /\ video_url' = NoUrl
    /\ exc' = NoExc
    /\ UNCHANGED <<returned, chat_history, question, prompt, completed, invokeCount, fetchCount,
                   menuShown>>

(***************************************************************************)
(* _chat_with_ai_loop                                                      *)
(***************************************************************************)
\* variant: the line is trimmed before it is compared
ChatExit_Trimmed ==
    /\ pc = "chat"
    /\ \E line \in ChatInputs :
          /\ Lower(Strip(line)) = <<"e", "x", "i", "t">>
          /\ event' = LineEvent(line)
    /\ pc' = "menu"
    /\ origin' = "none"
    /\ printed' = <<MenuText>>
    /\ exc' = NoExc
    /\ UNCHANGED <<returned, video_url, transcript, chat_history, question, prompt,
                   fetched, completed, invokeCount, fetchCount, menuShown>>

\* line 125-126: the line lowercased is the keyword; break, back to the menu
ChatExit ==
    /\ pc = "chat"
    /\ \E line \in ChatInputs :
          /\ Lower(line) = <<"e", "x", "i", "t">>
          /\ event' = LineEvent(line)
    /\ pc' = "menu"
    /\ origin' = "none"
    /\ printed' = <<MenuText>>
    /\ exc' = NoExc
    /\ UNCHANGED <<returned, video_url, transcript, chat_history, question, prompt, fetched,
                   completed, invokeCount, fetchCount, menuShown>>

\* line 127: any other line is the question of a _chat_with_ai call
ChatAsk ==
    /\ pc = "chat"
    /\ \E line \in ChatInputs :
          /\ Lower(line) # <<"e", "x", "i", "t">>
          /\ event' = LineEvent(line)
          /\ StartInvoke(PyStr(line))
    /\ printed' = <<>>
    /\ exc' = NoExc
    /\ UNCHANGED <<returned, origin, video_url, transcript, chat_history, fetched, completed,
                   fetchCount, menuShown>>

(***************************************************************************)
(* _chat_with_ai, from invoke's return on                                  *)
(***************************************************************************)
\* variant: the new turn overwrites the list instead of being appended
FinishInvoke_Overwrite(raw) ==
    LET answer == PyStr(Strip(raw))
    IN  /\ chat_history' = << <<question, answer>> >>
        /\ question' = NoQuestion
        /\ prompt' = <<>>

\* lines 151-154 with line 76: the trimmed content is the answer, and the
\* turn is appended
FinishInvoke(raw) ==
    LET answer == PyStr(Strip(raw))
    IN  /\ chat_history' = Append(chat_history, <<question, answer>>)
        /\ question' = NoQuestion
        /\ prompt' = <<>>

\* the chat completion backend answers the call in flight with content raw
InvokeReturns(raw) ==
    /\ pc = "asking"
    /\ event' = ResponseEvent(raw)
    /\ completed' = Append(completed, <<question, PyStr(Strip(raw))>>)

\* variant: the menu actions ask the backend without recording the turn
AskSingleAnswered_NoRecord ==
    /\ origin = "single"
    /\ \E raw \in Responses :
          /\ InvokeReturns(raw)
          /\ printed' = <<Msg("", Strip(raw)), MenuText>>
    /\ question' = NoQuestion
    /\ prompt' = <<>>
    /\ pc' = "menu"
    /\ origin' = "none"
    /\ exc' = NoExc
    /\ UNCHANGED <<returned, video_url, transcript, chat_history, fetched, invokeCount, fetchCount,
                   menuShown>>

\* _ask_ai_single_question prints the answer (line 145); back in _menu_loop
AskSingleAnswered ==
    /\ origin = "single"
    /\ \E raw \in Responses :
          /\ InvokeReturns(raw)
          /\ FinishInvoke(raw)
          /\ printed' = <<Msg("", Strip(raw)), MenuText>>
    /\ pc' = "menu"
    /\ origin' = "none"
    /\ exc' = NoExc
    /\ UNCHANGED <<returned, video_url, transcript, fetched, invokeCount, fetchCount, menuShown>>

\* _chat_with_ai_loop prints the answer (line 128) and blocks at line 124
ChatAnswered ==
    /\ origin = "chat"
    /\ \E raw \in Responses :
          /\ InvokeReturns(raw)
          /\ FinishInvoke(raw)
          /\ printed' = <<Msg("\nAnswer:\n", Strip(raw))>>
    /\ pc' = "chat"
    /\ exc' = NoExc
    /\ UNCHANGED <<returned, origin, video_url, transcript, fetched, invokeCount, fetchCount,
                   menuShown>>

\* variant: the question is recorded although the call failed
InvokeFail_RecordsQuestion ==
    /\ pc = "asking"
    /\ event' = NoEvent
    /\ chat_history' = Append(chat_history, <<question, PyNone>>)
    /\ exc' = [type |-> "APIError", handler |-> "run"]
    /\ pc' = "done"
    /\ printed' = <<ErrorText("APIError")>>
    /\ question' = NoQuestion
    /\ prompt' = <<>>
    /\ UNCHANGED <<returned, origin, video_url, transcript, fetched, completed,
                   invokeCount, fetchCount, menuShown>>

\* the chat completion backend raises
InvokeFail ==
    /\ pc = "asking"
    /\ event' = NoEvent
    /\ Raise("APIError", <<>>)

(***************************************************************************)
(* The user                                                                *)
(***************************************************************************)
Blocked == {"url_prompt", "construct", "fetching", "menu", "asking", "chat",
            "change_url", "refetching"}

AtInput == {"url_prompt", "menu", "chat", "change_url"}

\* CTRL+C while the process is blocked
Interrupt ==
    /\ pc \in Blocked
    /\ event' = NoEvent
    /\ Raise("KeyboardInterrupt", <<>>)

\* end of input at an input() call
EndOfInput ==
    /\ pc \in AtInput
    /\ event' = NoEvent
    /\ Raise("EOFError", <<>>)

Next ==
    \/ MainWithUrl
    \/ MainPromptUrl
    \/ MainReadUrl
    \/ Construct
    \/ ConstructFail
    \/ RunFetched
    \/ FetchFail
    \/ PrintTranscript
    \/ AskSingleQuestion
    \/ EnterChat
    \/ ChangeVideo
    \/ ExitApp
    \/ InvalidChoice
    \/ ChangeVideoReadUrl
    \/ ChangeVideoFetched
    \/ ChatExit
    \/ ChatAsk
    \/ AskSingleAnswered
    \/ ChatAnswered
    \/ InvokeFail
    \/ Interrupt
    \/ EndOfInput

Spec == Init /\ [][Next]_vars

(***************************************************************************)
(* prepare_prompt on its own: every transcript, question and history of    *)
(* the bounded input sets                                                  *)
(***************************************************************************)
PromptTexts ==
    UNION { FetchResults(u) : u \in URLs } \cup { <<>>, <<"Q: ", "x", "\n", "A: ", "y">> }

PromptQuestions ==
    { PyStr(<<>>), PyStr(<<"1">>),
      PyList1(<<"provide a 5 question FAQ based on the video content">>) }

PromptAnswers == { PyStr(Strip(r)) : r \in Responses }

PromptTurns == { <<q, a>> : q \in PromptQuestions, a \in PromptAnswers }

PromptHistories == UNION { [1..n -> PromptTurns] : n \in 0..MaxPromptHistory }

InitPrompt ==
    /\ pc = "prepare"
    /\ transcript \in PromptTexts
    /\ question \in PromptQuestions
    /\ chat_history \in PromptHistories
    /\ prompt = <<>>
    /\ origin = "none"
    /\ video_url = NoUrl
    /\ printed = <<>>
    /\ exc = NoExc
    /\ event = NoEvent
    /\ fetched = <<>>
    /\ completed = <<>>
    /\ invokeCount = 0
    /\ fetchCount = 0
    /\ menuShown = FALSE
    /\ returned = PyNone

\* line 150: the call of prepare_prompt
PreparePrompt ==
    /\ pc = "prepare"
    /\ prompt' = prepare_prompt(transcript, question, chat_history)
    /\ pc' = "prepared"
    /\ UNCHANGED <<returned, origin, video_url, transcript, chat_history, question, printed, exc,
                   event, fetched, completed, invokeCount, fetchCount, menuShown>>

NextPrompt == PreparePrompt

SpecPrompt == InitPrompt /\ [][NextPrompt]_vars

(***************************************************************************)
(* extract_video_id on its own: every URL of a bounded set                 *)
(***************************************************************************)
ExtractHostnames == {"www.youtube.com", "youtu.be", "youtube.com", "example.com"}

ExtractQueries ==
    { <<>>, << <<"v", "ABC123">> >>, << <<"t", "42">> >>,
      << <<"t", "42">>, <<"v", "ABC123">> >>, << <<"v", "">> >>,
      << <<"v", "ABC123">>, <<"v", "XYZ987">> >> }

ExtractPaths == { <<>>, <<"/">>, <<"/", "watch">>, <<"/", "XYZ987">> }

ExtractUrls ==
    { Url(h, q, p) : h \in ExtractHostnames, q \in ExtractQueries, p \in ExtractPaths }

InitExtract ==
    /\ pc = "extract"
    /\ video_url \in ExtractUrls
    /\ returned = PyNone
    /\ origin = "none"
    /\ transcript = <<>>
    /\ chat_history = <<>>
    /\ question = NoQuestion
    /\ prompt = <<>>
    /\ printed = <<>>
    /\ exc = NoExc
    /\ event = NoEvent
    /\ fetched = <<>>
    /\ completed = <<>>
    /\ invokeCount = 0
    /\ fetchCount = 0
    /\ menuShown = FALSE

\* line 97: the call of extract_video_id
ExtractVideoId ==
    /\ pc = "extract"
    /\ returned' = extract_video_id(video_url)
    /\ pc' = "extracted"
    /\ UNCHANGED <<origin, video_url, transcript, chat_history, question, prompt,
                   printed, exc, event, fetched, completed, invokeCount, fetchCount,
                   menuShown>>

NextExtract == ExtractVideoId

SpecExtract == InitExtract /\ [][NextExtract]_vars

(***************************************************************************)
(* The formatting pass of add_punctuation on its own: every text over a    *)
(* small alphabet, as the punctuation model might return it                *)
(***************************************************************************)
FormatChars == {"a", ".", ",", " ", "\n"}

FormatTexts == UNION { [1..n -> FormatChars] : n \in 0..MaxTextLen }

InitFormat ==
    /\ pc = "format"
    /\ transcript \in FormatTexts
    /\ returned = PyNone
    /\ origin = "none"
    /\ video_url = NoUrl
    /\ chat_history = <<>>
    /\ question = NoQuestion
    /\ prompt = <<>>
    /\ printed = <<>>
    /\ exc = NoExc
    /\ event = NoEvent
    /\ fetched = <<>>
    /\ completed = <<>>
    /\ invokeCount = 0
    /\ fetchCount = 0
    /\ menuShown = FALSE

\* line 44: the two replace calls on the punctuated text
FormatText ==
    /\ pc = "format"
    /\ returned' = PyStr(LineBreaks(transcript))
    /\ pc' = "formatted"
    /\ UNCHANGED <<origin, video_url, transcript, chat_history, question, prompt,
                   printed, exc, event, fetched, completed, invokeCount, fetchCount,
                   menuShown>>

NextFormat == FormatText

SpecFormat == InitFormat /\ [][NextFormat]_vars

TypeOK ==
    /\ pc \in Blocked \cup {"start", "done", "prepare", "prepared", "extract", "extracted",
                        "format", "formatted"}
    /\ origin \in {"none", "single", "chat", "change"}
    /\ Len(chat_history) <= MaxTurns
    /\ invokeCount \in 0..MaxInvokes
    /\ fetchCount \in 0..MaxFetches
    /\ menuShown \in BOOLEAN


(***************************************************************************)
(* Helpers of the properties                                               *)
(***************************************************************************)
IsPrefix(s, t) == Len(s) <= Len(t) /\ SubSeq(t, 1, Len(s)) = s

\* t occurs in s at position i
OccursAt(s, t, i) == i >= 1 /\ i + Len(t) - 1 <= Len(s) /\ SubSeq(s, i, i + Len(t) - 1) = t

\* the first position >= from where t occurs in s, or 0
Find(s, t, from) ==
    LET hits == { i \in from..(Len(s) + 1) : OccursAt(s, t, i) }
    IN  IF hits = {} THEN 0 ELSE CHOOSE i \in hits : \A j \in hits : i <= j

Contains(s, t) == Find(s, t, 1) > 0

\* the elements of s strictly between the first a and the first b after it
Between(s, a, b) ==
    LET i == Find(s, <<a>>, 1)
        j == Find(s, <<b>>, i + 1)
    IN  SubSeq(s, i + 1, j - 1)

TranscriptSection(p) == Between(p, T_Head, T_History)
HistorySection(p) == Between(p, T_History, T_Question)

Latest == fetched[Len(fetched)]

(***************************************************************************)
(* C1: in every step the chat history before the step is a prefix of the   *)
(* chat history after it: turns are only appended, never removed, edited   *)
(* or reordered.                                                           *)
(***************************************************************************)
C1_HistoryOnlyAppends == [][IsPrefix(chat_history, chat_history')]_vars

\* a second turn has just been appended behind the first
C1_Witness == Len(chat_history) = 2 /\ event.kind = "response"

(***************************************************************************)
(* C2: the chat history is, turn for turn and in order, the list of        *)
(* completed assistant invocations (question passed, answer returned),     *)
(* whether they were started from the menu actions or from the chat loop.  *)
(***************************************************************************)
C2_HistoryIsCompletedInvocations ==
    /\ Len(chat_history) = Len(completed)
    /\ \A i \in 1..Len(completed) : chat_history[i] = completed[i]

\* a menu action's invocation followed by a chat question's invocation
C2_Witness ==
    /\ Len(completed) = 2
    /\ completed[1][1].type = "list"
    /\ completed[2][1].type = "str"
    /\ pc = "chat"

(***************************************************************************)
(* C3: the transcript embedded in a prompt in flight, and the transcript   *)
(* the print action writes, is the result of the most recent successful    *)
(* pipeline.                                                               *)
(***************************************************************************)
C3_UsesLatestTranscript ==
    /\ pc = "asking" => (fetched # <<>> /\ TranscriptSection(prompt) = Latest)
    /\ \A i \in 1..Len(printed) :
          printed[i].msg = "\nPunctuated Transcript:\n"
              => (fetched # <<>> /\ printed[i].arg = Latest)

\* a prompt in flight after a change video that brought a different transcript
C3_Witness ==
    /\ Len(fetched) = 2
    /\ fetched[1] # fetched[2]
    /\ pc = "asking"
    /\ TranscriptSection(prompt) = fetched[2]

\* the transcript printed after a change video that brought a different one
C3_WitnessPrint ==
    /\ Len(fetched) = 2
    /\ fetched[1] # fetched[2]
    /\ printed # <<>>
    /\ printed[1] = Msg("\nPunctuated Transcript:\n", fetched[2])


(***************************************************************************)
(* C4: the prompt holds the transcript verbatim in its transcript section, *)
(* then in its history section the turns of the history in order, each as  *)
(* a line "Q: " with the question followed by a line "A: " with the        *)
(* answer, the turns on lines of their own and nothing else, then the new  *)
(* question in its question section; an empty history gives an empty       *)
(* history section.                                                        *)
(***************************************************************************)
QuestionSection(p) == Between(p, T_Question, T_Tail)

\* the Q line and the A line of a turn
TurnLines(turn) == <<"Q: ">> \o Format(turn[1]) \o <<"\n">> \o <<"A: ">> \o Format(turn[2])

\* s is exactly the turns of h in order, one after the other, each on lines
\* of its own
RECURSIVE HoldsTurns(_, _)
HoldsTurns(s, h) ==
    IF h = <<>> THEN s = <<>>
    ELSE LET t == TurnLines(Head(h))
         IN  /\ OccursAt(s, t, 1)
             /\ IF Len(h) = 1 THEN Len(s) = Len(t)
                ELSE /\ Len(s) > Len(t)
                     /\ s[Len(t) + 1] = "\n"
                     /\ HoldsTurns(SubSeq(s, Len(t) + 2, Len(s)), Tail(h))

C4_PromptStructure ==
    pc = "prepared" =>
        /\ prompt # <<>>
        /\ Find(prompt, <<T_Head>>, 1) = 1
        /\ Find(prompt, <<T_History>>, 1) > 1
        /\ Find(prompt, <<T_Question>>, 1) > Find(prompt, <<T_History>>, 1)
        /\ Find(prompt, <<T_Tail>>, 1) > Find(prompt, <<T_Question>>, 1)
        /\ TranscriptSection(prompt) = transcript
        /\ HoldsTurns(HistorySection(prompt), chat_history)
        /\ Contains(QuestionSection(prompt), question.val)
        /\ chat_history = <<>> => HistorySection(prompt) = <<>>

\* a prompt built from a transcript and two different earlier turns
C4_Witness ==
    /\ pc = "prepared"
    /\ transcript # <<>>
    /\ Len(chat_history) = 2
    /\ chat_history[1] # chat_history[2]


(***************************************************************************)
(* C5: inside the chat sub-loop (waiting for a question, or an assistant   *)
(* call of the loop in progress) the exit keyword and a user interrupt     *)
(* both lead back to the menu prompt: the process goes on, the top-level   *)
(* handler is not reached and the menu is printed again.                   *)
(***************************************************************************)
InChat == pc = "chat" \/ (pc = "asking" /\ origin = "chat")

C5_ChatLeavesToMenu ==
    [][ ( /\ InChat
          /\ \/ pc = "chat" /\ event'.kind = "line" /\ event'.text = <<"e", "x", "i", "t">>
             \/ exc'.type = "KeyboardInterrupt" )
        => ( /\ pc' = "menu"
             /\ exc'.handler \in {"none", "_chat_with_ai_loop"}
             /\ printed' # <<>>
             /\ printed'[Len(printed')] = MenuText
             /\ \A i \in 1..Len(printed') : printed'[i].msg # "Error: " ) ]_vars

\* an interrupt during an assistant call of the chat loop was caught there
C5_Witness ==
    /\ pc = "menu"
    /\ exc = [type |-> "KeyboardInterrupt", handler |-> "_chat_with_ai_loop"]
    /\ invokeCount = 1
    /\ completed = <<>>

(***************************************************************************)
(* C6: summarize, FAQ and table of contents each start exactly one         *)
(* assistant call, with a prompt holding the action's canned question and  *)
(* the current transcript; when the backend answers, the trimmed answer is *)
(* printed as it is, no further call is made and the menu prompt returns.  *)
(***************************************************************************)
CannedQuestion(code) ==
    CASE code = <<"2">> -> <<"provide a summary of the video content">>
      [] code = <<"4">> -> <<"provide a 5 question FAQ based on the video content">>
      [] code = <<"5">> -> <<"provide a table of contents based on the video content">>

\* t is raw without its leading and trailing whitespace
IsTrimOf(t, raw) ==
    /\ t = <<>> \/ (~IsWhitespace(t[1]) /\ ~IsWhitespace(t[Len(t)]))
    /\ \E i \in 1..(Len(raw) + 1) :
          /\ OccursAt(raw, t, i)
          /\ \A k \in 1..Len(raw) : (k < i \/ k >= i + Len(t)) => IsWhitespace(raw[k])

C6_SingleRoundTrip ==
    [][ /\ ( pc = "menu" /\ event'.kind = "line"
             /\ event'.text \in {<<"2">>, <<"4">>, <<"5">>} )
           => ( /\ pc' = "asking"
                /\ invokeCount' = invokeCount + 1
                /\ Contains(QuestionSection(prompt'), CannedQuestion(event'.text))
                /\ TranscriptSection(prompt') = transcript
                /\ transcript' = transcript )
        /\ ( pc = "asking" /\ origin = "single" /\ event'.kind = "response" )
           => ( /\ pc' = "menu"
                /\ invokeCount' = invokeCount
                /\ Len(printed') = 2
                /\ printed'[1].msg = ""
                /\ IsTrimOf(printed'[1].arg, event'.text)
                /\ printed'[2] = MenuText ) ]_vars

\* the FAQ action has printed the trimmed answer and is back at the menu
C6_Witness ==
    /\ pc = "menu"
    /\ event = ResponseEvent(<<" ", "ok", "\n">>)
    /\ printed = <<Msg("", <<"ok">>), MenuText>>
    /\ invokeCount = 1
    /\ Len(chat_history) = 1
    /\ chat_history[1][1].val = <<"provide a 5 question FAQ based on the video content">>

(***************************************************************************)
(* C7: a menu line that is none of the seven option codes changes nothing: *)
(* transcript and history stay, no fetch and no assistant call starts, the *)
(* error message is printed and the menu is printed again.                 *)
(***************************************************************************)
OptionCodes == { <<"0">>, <<"1">>, <<"2">>, <<"3">>, <<"4">>, <<"5">>, <<"6">> }

C7_InvalidChoiceNoChange ==
    [][ ( pc = "menu" /\ event'.kind = "line" /\ event'.text \notin OptionCodes )
        => ( /\ pc' = "menu"
             /\ printed' = <<InvalidText, MenuText>>
             /\ exc' = NoExc
             /\ UNCHANGED <<transcript, chat_history, invokeCount, fetchCount>> ) ]_vars

\* an option code with a leading space was just rejected
C7_Witness ==
    /\ pc = "menu"
    /\ event = LineEvent(<<" ", "1">>)
    /\ printed = <<InvalidText, MenuText>>

(***************************************************************************)
(* C8: at the menu prompt, option 0 and a user interrupt both end the      *)
(* process after printing the farewell, with no error message; once the    *)
(* process has ended nothing more happens.                                 *)
(***************************************************************************)
C8_ExitEndsProcess ==
    [][ /\ ( pc = "menu"
             /\ \/ event'.kind = "line" /\ event'.text = <<"0">>
                \/ exc'.type = "KeyboardInterrupt" )
           => ( /\ pc' = "done"
                /\ printed' \in { <<ExitingText>>, <<TopExitingText>> }
                /\ UNCHANGED <<invokeCount, fetchCount>> )
        /\ pc = "done" => UNCHANGED vars ]_vars

\* the process has ended through option 0
C8_Witness ==
    /\ pc = "done"
    /\ printed = <<ExitingText>>
    /\ exc.type = "SystemExit"
    /\ menuShown

(***************************************************************************)
(* C9: every user interrupt is caught by the chat sub-loop handler or by   *)
(* the top-level handler of run.                                           *)
(***************************************************************************)
C9_EveryInterruptCaught ==
    exc.type = "KeyboardInterrupt" => exc.handler \in {"_chat_with_ai_loop", "run"}

(***************************************************************************)
(* C10: the menu is printed and an assistant call is started only after a  *)
(* pipeline has succeeded and its result is the session transcript; when   *)
(* the initial pipeline fails, run catches the error, one error message is *)
(* printed and the process ends with one fetch, no menu and no assistant   *)
(* call.                                                                   *)
(***************************************************************************)
C10_MenuOnlyAfterFetch ==
    /\ ( menuShown \/ invokeCount > 0 \/ pc \in {"menu", "chat", "asking", "change_url"} )
       => ( fetched # <<>> /\ transcript = Latest )
    /\ ( pc = "done" /\ fetched = <<>> /\ exc.type = "TranscriptError" )
       => ( /\ exc.handler = "run"
            /\ printed = <<ErrorText("TranscriptError")>>
            /\ ~menuShown
            /\ invokeCount = 0
            /\ fetchCount = 1 )

\* the initial fetch has failed and the process has ended
C10_Witness ==
    /\ pc = "done"
    /\ fetched = <<>>
    /\ fetchCount = 1
    /\ exc = [type |-> "TranscriptError", handler |-> "run"]


(***************************************************************************)
(* C11: an error that is no user interrupt, raised while an in-menu action *)
(* is blocked (an assistant call of summarize, FAQ, table of contents or   *)
(* chat, the chat prompt, the URL prompt or the pipeline of change video), *)
(* is caught by run alone: one error message is printed, the process ends, *)
(* no menu follows and no call is started again.                           *)
(***************************************************************************)
C11_ActionErrorEndsSession ==
    [][ ( /\ pc \in {"asking", "chat", "change_url", "refetching"}
          /\ exc'.type \notin {"none", "KeyboardInterrupt"} )
        => ( /\ exc'.handler = "run"
             /\ pc' = "done"
             /\ printed' = <<ErrorText(exc'.type)>>
             /\ UNCHANGED <<invokeCount, fetchCount, transcript, chat_history>> ) ]_vars

\* the backend failed on a chat question asked after a first answered one
C11_Witness ==
    /\ pc = "done"
    /\ exc = [type |-> "APIError", handler |-> "run"]
    /\ invokeCount = 2
    /\ Len(chat_history) = 1
    /\ chat_history[1][1].type = "str"

(***************************************************************************)
(* C12: extract_video_id returns the value of the v parameter for hostname *)
(* www.youtube.com, the path after its leading slash for hostname youtu.be,*)
(* and the no-identifier result for everything else, a www.youtube.com URL *)
(* without v and a youtu.be URL without a path segment included; it never  *)
(* returns an empty identifier.                                            *)
(***************************************************************************)
RECURSIVE ValuesOfV(_)
ValuesOfV(q) ==
    IF q = <<>> THEN <<>>
    ELSE IF Head(q)[1] = "v" /\ Head(q)[2] # "" THEN <<Head(q)[2]>> \o ValuesOfV(Tail(q))
    ELSE ValuesOfV(Tail(q))

ExpectedVideoId(url) ==
    IF url.hostname = "www.youtube.com" /\ ValuesOfV(url.query) # <<>>
    THEN PyStr(<<ValuesOfV(url.query)[1]>>)
    ELSE IF url.hostname = "youtu.be" /\ Len(url.path) > 1
    THEN PyStr(SubSeq(url.path, 2, Len(url.path)))
    ELSE PyNone

C12_ExtractVideoId ==
    pc = "extracted" =>
        /\ returned = ExpectedVideoId(video_url)
        /\ returned # PyStr(<<>>)


(***************************************************************************)
(* C13: the line-break step leaves a text without period-space and         *)
(* comma-space unchanged, its output never holds period-space or           *)
(* comma-space, and applying it to its own output changes nothing.         *)
(***************************************************************************)
PeriodSpace == <<".", " ">>
CommaSpace == <<",", " ">>

C13_LineBreaksIdempotent ==
    pc = "formatted" =>
        /\ ( ~Contains(transcript, PeriodSpace) /\ ~Contains(transcript, CommaSpace) )
           => returned.val = transcript
        /\ ~Contains(returned.val, PeriodSpace)
        /\ ~Contains(returned.val, CommaSpace)
        /\ LineBreaks(returned.val) = returned.val

\* a text with a period-space and a comma-space has been formatted
C13_Witness ==
    /\ pc = "formatted"
    /\ transcript = <<".", " ", ",", " ">>
    /\ returned = PyStr(<<".", "\n", ",", "\n">>)


(***************************************************************************)
(* C14: the transcript a successful pipeline stores is the line-break      *)
(* formatting of what the punctuation model returned for the caption       *)
(* texts, in their order, separated by single spaces, without the timing   *)
(* data; for the entries "hello world" and "how are you" and the model     *)
(* output "Hello world. How are you?" it is the two lines "Hello world."   *)
(* and "How are you?".                                                     *)
(***************************************************************************)
RECURSIVE SpaceSeparated(_)
SpaceSeparated(entries) ==
    IF entries = <<>> THEN <<>>
    ELSE IF Len(entries) = 1 THEN entries[1].text
    ELSE entries[1].text \o <<" ">> \o SpaceSeparated(Tail(entries))

\* the lines of a text, split at its newlines
RECURSIVE SplitLines(_)
SplitLines(t) ==
    LET i == Find(t, <<"\n">>, 1)
    IN  IF i = 0 THEN <<t>>
        ELSE <<SubSeq(t, 1, i - 1)>> \o SplitLines(SubSeq(t, i + 1, Len(t)))

EntryTexts(entries) == [i \in 1..Len(entries) |-> entries[i].text]

C14_StoredTranscript ==
    [][ ( pc \in {"fetching", "refetching"} /\ event'.kind = "pipeline" )
        => LET entries == Captions(extract_video_id(video_url))
           IN  /\ entries # <<>>
               /\ \E p \in PunctuationModelOutputs(SpaceSeparated(entries)) :
                     transcript' = LineBreaks(p)
               /\ EntryTexts(entries) =
                     << <<"hello", " ", "world">>, <<"how", " ", "are", " ", "you">> >>
                  => SplitLines(transcript') =
                        << <<"Hello", " ", "world", ".">>,
                           <<"How", " ", "are", " ", "you?">> >> ]_vars

\* the pipeline has stored the two lines of the example
C14_Witness ==
    /\ pc = "menu"
    /\ event.kind = "pipeline"
    /\ transcript = <<"Hello", " ", "world", ".", "\n", "How", " ", "are", " ", "you?">>


(***************************************************************************)
(* C15: a URL without identifier is not checked: the fetch is started with *)
(* the null identifier, at the initial URL and at change video, and its    *)
(* failure is caught by run, which prints an error and ends the process,   *)
(* without a new prompt, a new fetch or a change of the transcript.        *)
(***************************************************************************)
C15_NullIdentifierFetched ==
    [][ /\ ( pc = "construct" /\ extract_video_id(video_url) = PyNone /\ exc'.type = "none" )
           => ( pc' = "fetching" /\ fetchCount' = fetchCount + 1 /\ video_url' = video_url )
        /\ ( pc = "change_url" /\ event'.kind = "url"
             /\ extract_video_id(video_url') = PyNone )
           => ( pc' = "refetching" /\ fetchCount' = fetchCount + 1 )
        /\ ( pc \in {"fetching", "refetching"} /\ extract_video_id(video_url) = PyNone
             /\ exc'.type # "KeyboardInterrupt" )
           => ( /\ exc'.type \notin {"none", "KeyboardInterrupt", "SystemExit"}
                /\ exc'.handler = "run"
                /\ pc' = "done"
                /\ printed' = <<ErrorText(exc'.type)>>
                /\ UNCHANGED <<transcript, fetched, fetchCount>> ) ]_vars

\* change video with a URL of another host has ended the session; the
\* transcript of the first video is still the stored one
C15_Witness ==
    /\ pc = "done"
    /\ origin = "change"
    /\ extract_video_id(video_url) = PyNone
    /\ exc = [type |-> "TranscriptError", handler |-> "run"]
    /\ Len(fetched) = 1
    /\ transcript = fetched[1]

(***************************************************************************)
(* C16: the question of every assistant call and of every recorded turn is *)
(* a string, also for the summarize, FAQ and table of contents actions, so *)
(* that the turn's Q line in a later prompt is "Q: " followed by exactly   *)
(* the question text.                                                      *)
(***************************************************************************)
RECURSIVE PlainTurns(_)
PlainTurns(h) ==
    IF h = <<>> THEN <<>>
    ELSE <<"Q: ">> \o Head(h)[1].val \o <<"\n", "A: ">> \o Head(h)[2].val
            \o (IF Len(h) = 1 THEN <<>> ELSE <<"\n">> \o PlainTurns(Tail(h)))

C16_CannedQuestionIsString ==
    /\ pc = "asking" => ( /\ question.type = "str"
                          /\ HistorySection(prompt) = PlainTurns(chat_history) )
    /\ \A i \in 1..Len(chat_history) : chat_history[i][1].type = "str"


(***************************************************************************)
(* C17: the transcript changes only in the step in which a pipeline        *)
(* succeeds, to that pipeline's result; the history changes only in the    *)
(* step in which an assistant call returns, by one appended turn; a        *)
(* successful change video leaves the history as it is, and every prompt   *)
(* started later still holds those turns; printing the transcript, leaving *)
(* the chat and an invalid menu line change neither field.                 *)
(***************************************************************************)
C17_SessionFieldsFrame ==
    [][ /\ transcript' # transcript
           => ( /\ pc \in {"fetching", "refetching"}
                /\ event'.kind = "pipeline"
                /\ transcript' = event'.text )
        /\ chat_history' # chat_history
           => ( /\ pc = "asking"
                /\ event'.kind = "response"
                /\ Len(chat_history') = Len(chat_history) + 1
                /\ IsPrefix(chat_history, chat_history') )
        /\ event'.kind = "pipeline" => chat_history' = chat_history
        /\ pc' = "asking" => HoldsTurns(HistorySection(prompt'), chat_history)
        /\ ( pc = "menu" /\ event'.kind = "line"
             /\ (event'.text = <<"1">> \/ event'.text \notin OptionCodes) )
           => UNCHANGED <<transcript, chat_history>>
        /\ ( pc = "chat" /\ pc' = "menu" ) => UNCHANGED <<transcript, chat_history>> ]_vars

\* change video has just brought a different transcript, and the turn asked
\* before it is still in the history
C17_Witness ==
    /\ pc = "menu"
    /\ event.kind = "pipeline"
    /\ Len(fetched) = 2
    /\ fetched[1] # fetched[2]
    /\ transcript = fetched[2]
    /\ Len(chat_history) = 1

(***************************************************************************)
(* C18: an assistant call that ends with an error or a user interrupt      *)
(* leaves the history and the transcript as they were; a turn enters the   *)
(* history only in the step in which the answer arrives, and every turn of *)
(* the history holds an answer.                                            *)
(***************************************************************************)
C18_FailedInvokeAppendsNothing ==
    [][ /\ ( pc = "asking" /\ exc'.type # "none" )
           => UNCHANGED <<chat_history, transcript>>
        /\ Len(chat_history') > Len(chat_history)
           => ( pc = "asking" /\ exc'.type = "none" /\ event'.kind = "response" )
        /\ \A i \in 1..Len(chat_history') :
              /\ Len(chat_history'[i]) = 2
              /\ chat_history'[i][2].type = "str" ]_vars

\* after one answered question, the second call of the chat loop was
\* interrupted and the history still holds the one turn
C18_Witness ==
    /\ pc = "menu"
    /\ exc = [type |-> "KeyboardInterrupt", handler |-> "_chat_with_ai_loop"]
    /\ invokeCount = 2
    /\ Len(chat_history) = 1

(***************************************************************************)
(* C19: a user interrupt during the assistant call of summarize, FAQ or    *)
(* table of contents, or during the URL prompt or the pipeline of change   *)
(* video, is caught by run, which prints the farewell and ends the         *)
(* process; the same interrupt inside the chat sub-loop is caught there    *)
(* and the menu prompt returns.                                            *)
(***************************************************************************)
C19_InterruptOutsideChatEnds ==
    [][ exc'.type = "KeyboardInterrupt"
        => /\ ( (pc = "asking" /\ origin = "single") \/ pc \in {"change_url", "refetching"} )
              => ( /\ exc'.handler = "run"
                   /\ pc' = "done"
                   /\ printed' = <<TopExitingText>> )
           /\ InChat
              => ( /\ exc'.handler = "_chat_with_ai_loop"
                   /\ pc' = "menu" ) ]_vars

\* the assistant call of a menu action was interrupted and the process ended
C19_Witness ==
    /\ pc = "done"
    /\ origin = "single"
    /\ exc = [type |-> "KeyboardInterrupt", handler |-> "run"]
    /\ printed = <<TopExitingText>>

(***************************************************************************)
(* C20: a line read in the chat sub-loop ends the chat exactly when it is  *)
(* the word exit in any letter case, nothing before or after it; that line *)
(* starts no assistant call and enters no turn.  Every other line, the     *)
(* empty line and the menu codes too, is the question of one assistant     *)
(* call whose prompt holds the current transcript and history, and the     *)
(* answer to it appends one turn with that line as its question.           *)
(***************************************************************************)
IsExitKeyword(line) ==
    /\ Len(line) = 4
    /\ line[1] \in {"e", "E"}
    /\ line[2] \in {"x", "X"}
    /\ line[3] \in {"i", "I"}
    /\ line[4] \in {"t", "T"}

C20_ChatLineDispatch ==
    [][ /\ ( pc = "chat" /\ event'.kind = "line" )
           => IF IsExitKeyword(event'.text)
              THEN /\ pc' = "menu"
                   /\ UNCHANGED <<chat_history, invokeCount>>
              ELSE /\ pc' = "asking"
                   /\ invokeCount' = invokeCount + 1
                   /\ question' = PyStr(event'.text)
                   /\ TranscriptSection(prompt') = transcript
                   /\ HoldsTurns(HistorySection(prompt'), chat_history)
                   /\ QuestionSection(prompt') = event'.text
                   /\ chat_history' = chat_history
        /\ ( pc = "asking" /\ origin = "chat" /\ event'.kind = "response" )
           => ( /\ pc' = "chat"
                /\ Len(chat_history') = Len(chat_history) + 1
                /\ IsPrefix(chat_history, chat_history')
                /\ chat_history'[Len(chat_history')][1] = question ) ]_vars

\* the keyword with a trailing space, then the empty line, were asked as
\* questions and answered
C20_Witness ==
    /\ pc = "chat"
    /\ Len(chat_history) = 2
    /\ chat_history[1][1] = PyStr(<<"e", "x", "i", "t", " ">>)
    /\ chat_history[2][1] = PyStr(<<>>)

=============================================================================
